---- MODULE Spec2Model ----
(***************************************************************************)
(* Model of json-schema/test-collapse.py: the verification script for the *)
(* collapseTransparent pass.  One run of main() is a behaviour: the        *)
(* command line and the two files are chosen in Init, and every block of   *)
(* main() is one action.  collect_refs is a recursive operator.            *)
(*                                                                         *)
(* A Python str is a sequence of one-character strings.  A JSON value is a *)
(* record [t, s, n, kv]: t is the type tag, s the characters of a string,  *)
(* n the value of a number, kv the items of a dict (in insertion order) or *)
(* of a list (keys empty).                                                 *)
(***************************************************************************)
EXTENDS Integers, Sequences, FiniteSets, TLC

VARIABLES argv, files, pc, after, after_defs, after_count, before,
          before_count, removed, reduced_defs, all_refs, broken, orphaned,
          collapsed_annotation, actual_collapsed, errors, out, stderr, exit

vars == <<argv, files, pc, after, after_defs, after_count, before,
          before_count, removed, reduced_defs, all_refs, broken, orphaned,
          collapsed_annotation, actual_collapsed, errors, out, stderr, exit>>

(***************************************************************************)
(* Bounds of the enumerated inputs.                                        *)
(***************************************************************************)
\* largest len(sys.argv) tried
MaxArgc == 3
\* largest value of the x-netex-collapsed annotation tried
MaxCollapsed == 2
\* deepest list nesting around a $ref tried
MaxDepth == 1

(***************************************************************************)
(* Strings.                                                                *)
(***************************************************************************)
DEFINITIONS_KEY == <<"d", "e", "f", "i", "n", "i", "t", "i", "o", "n", "s">>

REF_KEY == <<"$", "r", "e", "f">>

REDUCED_KEY == <<"x", "-", "n", "e", "t", "e", "x", "-", "r", "e", "d", "u", "c", "e", "d">>

COLLAPSED_KEY == <<"x", "-", "n", "e", "t", "e", "x", "-", "c", "o", "l", "l", "a", "p", "s", "e", "d">>

PREFIX == <<"#", "/">> \o DEFINITIONS_KEY \o <<"/">>

\* str.startswith
StartsWith(s, p) == Len(s) >= Len(p) /\ SubSeq(s, 1, Len(p)) = p

\* s[k:]
SliceFrom(s, k) == SubSeq(s, k + 1, Len(s))

\* ord() of the characters that occur in definition names
Ord(c) ==
  CASE c = "A" -> 65
    [] c = "B" -> 66
    [] c = "C" -> 67
    [] c = "D" -> 68
    [] OTHER -> 0

\* s < t for Python strings: lexicographic by code point, a proper prefix first
RECURSIVE StrLess(_, _)
StrLess(s, t) ==
  IF t = <<>> THEN FALSE
  ELSE IF s = <<>> THEN TRUE
  ELSE IF Head(s) = Head(t) THEN StrLess(Tail(s), Tail(t))
  ELSE Ord(Head(s)) < Ord(Head(t))

\* sorted(S) for a set of strings
RECURSIVE Sorted(_)
Sorted(S) ==
  IF S = {} THEN <<>>
  ELSE LET m == CHOOSE x \in S : \A y \in S \ {x} : StrLess(x, y)
       IN <<m>> \o Sorted(S \ {m})

(***************************************************************************)
(* JSON values as json.load returns them.                                  *)
(***************************************************************************)
JNull == [t |-> "null", s |-> <<>>, n |-> 0, kv |-> <<>>]

JStr(s) == [t |-> "str", s |-> s, n |-> 0, kv |-> <<>>]

JNum(n) == [t |-> "num", s |-> <<>>, n |-> n, kv |-> <<>>]

JItem(k, v) == [k |-> k, v |-> v]

\* a dict from its items
JObj(items) == [t |-> "obj", s |-> <<>>, n |-> 0, kv |-> items]

\* a list of one, two elements
JArr1(v) == [t |-> "arr", s |-> <<>>, n |-> 0, kv |-> <<JItem(<<>>, v)>>]

JArr0 == [t |-> "arr", s |-> <<>>, n |-> 0, kv |-> <<>>]

\* isinstance(v, dict), isinstance(v, list), isinstance(v, str)
IsDict(v) == v.t = "obj"

IsList(v) == v.t = "arr"

IsStr(v) == v.t = "str"

\* key in d
HasKey(d, key) == \E i \in 1..Len(d.kv) : d.kv[i].k = key

\* d[key]
Lookup(d, key) == d.kv[CHOOSE i \in 1..Len(d.kv) : d.kv[i].k = key].v

\* d.get(key, default)
Get(d, key, default) == IF HasKey(d, key) THEN Lookup(d, key) ELSE default

\* set(d.keys())
Keys(d) == {d.kv[i].k : i \in 1..Len(d.kv)}

\* len(d)
PyLen(d) == Len(d.kv)

(***************************************************************************)
(* collect_refs: walk an object tree and collect all $ref targets.         *)
(***************************************************************************)
\* key == "$ref" and isinstance(val, str) and val.startswith("#/definitions/")
IsLocalRef(key, val) == key = REF_KEY /\ IsStr(val) /\ StartsWith(val.s, PREFIX)

\* val[len("#/definitions/"):]
RefTarget(val) == SliceFrom(val.s, Len(PREFIX))

RECURSIVE collect_refs(_, _), collect_items(_, _), collect_list(_, _)
RECURSIVE collect_items_SkipRef(_, _)
\* variant: the value of a "$ref" key is never walked
collect_items_SkipRef(kv, refs) ==
  IF kv = <<>> THEN refs
  ELSE LET key == Head(kv).k
           val == Head(kv).v
       IN collect_items_SkipRef(Tail(kv),
            IF IsLocalRef(key, val)
            THEN refs \cup {RefTarget(val)}
            ELSE IF key = REF_KEY THEN refs
            ELSE collect_refs(val, refs))

\* the loop over obj.items()
collect_items(kv, refs) ==
  IF kv = <<>> THEN refs
  ELSE LET key == Head(kv).k
           val == Head(kv).v
       IN collect_items(Tail(kv),
            IF IsLocalRef(key, val)
            THEN refs \cup {RefTarget(val)}
            ELSE collect_refs(val, refs))

\* the loop over the elements of a list
collect_list(kv, refs) ==
  IF kv = <<>> THEN refs
  ELSE collect_list(Tail(kv), collect_refs(Head(kv).v, refs))

collect_refs(obj, refs) ==
  IF IsDict(obj) THEN collect_items(obj.kv, refs)
  ELSE IF IsList(obj) THEN collect_list(obj.kv, refs)
  ELSE refs

(***************************************************************************)
(* The inputs tried: command lines, files, documents.  The documents have  *)
(* the shape the script's docstring and checks assume: a JSON object whose *)
(* "definitions", if present, is a mapping, and whose "x-netex-reduced"    *)
(* values are lists of strings.  Definition entries are objects or lists;  *)
(* "x-netex-collapsed" is absent, a number or a string.                    *)
(***************************************************************************)
PROG == "test-collapse.py"

AFTER_PATH == "after.json"

BEFORE_PATH == "before.json"

NameA == <<"A">>

NameB == <<"B">>

NameC == <<"C">>

NameD == <<"D">>

ITEMS_KEY == <<"i", "t", "e", "m", "s">>

PROPERTIES_KEY == <<"p", "r", "o", "p", "e", "r", "t", "i", "e", "s">>

\* {"$ref": "#/definitions/<target>"}
RefTo(target) == JObj(<<JItem(REF_KEY, JStr(PREFIX \o target))>>)

\* v inside d nested lists
RECURSIVE Nest(_, _)
Nest(d, v) == IF d = 0 THEN v ELSE JArr1(Nest(d - 1, v))

\* the items that carry (or do not carry) a reference to target
RefItems(target) ==
  {<<JItem(REF_KEY, JStr(PREFIX \o target))>>,
   <<JItem(REF_KEY, JStr(<<"x">> \o PREFIX \o target))>>,
   <<JItem(REF_KEY, RefTo(target))>>,
   <<JItem(REF_KEY, JArr1(RefTo(target)))>>}
  \cup {<<JItem(ITEMS_KEY, Nest(d, RefTo(target)))>> : d \in 1..MaxDepth}

\* the x-netex-reduced items of a definition: none, an empty list, one name
ReducedItems ==
  {<<>>,
   <<JItem(REDUCED_KEY, JArr0)>>,
   <<JItem(REDUCED_KEY, JArr1(JStr(NameC)))>>}

\* the definition entries tried under the name A
EntriesA ==
  {JObj(r \o x) : r \in ReducedItems,
                  x \in {<<>>} \cup RefItems(NameC) \cup RefItems(NameD)}
  \cup {JArr1(JStr(REDUCED_KEY)), JArr1(RefTo(NameC))}

\* the definition entries tried under the name B
EntriesB ==
  {JObj(<<>>), JObj(<<JItem(REDUCED_KEY, JArr1(JStr(NameC)))>>),
   RefTo(NameA), RefTo(NameC)}

\* the "definitions" mappings tried for the after document
AfterDefinitions ==
  {JObj(a \o b) : a \in {<<>>} \cup {<<JItem(NameA, e)>> : e \in EntriesA},
                  b \in {<<>>} \cup {<<JItem(NameB, e)>> : e \in EntriesB}}

\* the top-level x-netex-collapsed items tried
CollapsedItems ==
  {<<>>, <<JItem(COLLAPSED_KEY, JStr(<<"1">>))>>}
  \cup {<<JItem(COLLAPSED_KEY, JNum(n))>> : n \in 0..MaxCollapsed}

\* the after documents tried; "properties" holds a reference outside "definitions"
AfterDocs ==
  {JObj(d \o c \o p) :
     d \in {<<>>} \cup {<<JItem(DEFINITIONS_KEY, m)>> : m \in AfterDefinitions},
     c \in CollapsedItems,
     p \in {<<>>, <<JItem(PROPERTIES_KEY, RefTo(NameC))>>}}

\* the before documents tried
BeforeDocs ==
  {JObj(<<>>)} \cup
  {JObj(<<JItem(DEFINITIONS_KEY, JObj(a \o c \o d))>>) :
     a \in {<<>>, <<JItem(NameA, JObj(<<>>))>>},
     c \in {<<>>, <<JItem(NameC, JObj(<<>>))>>},
     d \in {<<>>, <<JItem(NameD, JObj(<<>>))>>}}

\* a file: absent or unreadable, not JSON, or a document
Missing == [status |-> "missing", doc |-> JNull]

Invalid == [status |-> "invalid", doc |-> JNull]

Ok(doc) == [status |-> "ok", doc |-> doc]

\* sys.argv of every length up to MaxArgc
ArgOptions(i) ==
  CASE i = 1 -> {PROG}
    [] i = 2 -> {AFTER_PATH}
    [] i = 3 -> {"", BEFORE_PATH}
    [] OTHER -> {"extra"}

ArgvSet ==
  UNION {{a \in [1..n -> {PROG, AFTER_PATH, BEFORE_PATH, "", "extra"}] :
            \A i \in 1..n : a[i] \in ArgOptions(i)} : n \in 1..MaxArgc}

\* open(path) followed by json.load
Open(path) == IF path \in DOMAIN files THEN files[path] ELSE Missing

(***************************************************************************)
(* Printed lines and recorded error messages.                              *)
(***************************************************************************)
\* one line of standard output: what it is, the name and the numbers in it
Line(tag, name, nums) == [tag |-> tag, name |-> name, nums |-> nums]

\* one message of the errors list; val is the annotation a mismatch quotes
Error(kind, name, nums, val) == [kind |-> kind, name |-> name, nums |-> nums, val |-> val]

\* sep.join(targets) for a list of strings
RECURSIVE Join(_, _)
Join(sep, kv) ==
  IF kv = <<>> THEN <<>>
  ELSE IF Len(kv) = 1 THEN Head(kv).v.s
  ELSE Head(kv).v.s \o sep \o Join(sep, Tail(kv))

\* variant: the new messages replace the list
AppendErrors_Overwrite(errs, new) == new

\* errors.append(e) for each e of new, in order
AppendErrors(errs, new) == errs \o new

\* the uncaught exception of open() or json.load: traceback, status 1
Raise ==
  /\ stderr' = Append(stderr, "Traceback")
  /\ exit' = 1
  /\ pc' = "exited"

(***************************************************************************)
(* main, lines 38-43: the argument check.                                  *)
(***************************************************************************)
\* sys.argv[2] if len(sys.argv) > 2 else None
BeforePath(a) == IF Len(a) > 2 THEN a[3] ELSE "None"

\* if before_path: (None and the empty string are false)
Truthy(path) == path # "None" /\ path # ""

before_path == BeforePath(argv)

after_path == argv[2]

Args ==
  /\ pc = "args"
  /\ IF Len(argv) < 2
     THEN /\ out' = Append(out, Line("Usage", <<>>, <<>>))
          /\ exit' = 1
          /\ pc' = "exited"
     ELSE /\ pc' = "load_after"
          /\ UNCHANGED <<out, exit>>
  /\ UNCHANGED <<argv, files, after, after_defs, after_count, before,
                 before_count, removed, reduced_defs, all_refs, broken,
                 orphaned, collapsed_annotation, actual_collapsed, errors,
                 stderr>>

(***************************************************************************)
(* main, lines 45-50: load the after document.                             *)
(***************************************************************************)
LoadAfter ==
  /\ pc = "load_after"
  /\ IF Open(after_path).status # "ok"
     THEN /\ Raise
          /\ UNCHANGED <<after, after_defs, after_count, errors>>
     ELSE /\ after' = Open(after_path).doc
          /\ after_defs' = Get(after', DEFINITIONS_KEY, JObj(<<>>))
          /\ after_count' = PyLen(after_defs')
          /\ errors' = <<>>
          /\ pc' = "title"
          /\ UNCHANGED <<stderr, exit>>
  /\ UNCHANGED <<argv, files, before, before_count, removed, reduced_defs,
                 all_refs, broken, orphaned, collapsed_annotation,
                 actual_collapsed, out>>

(***************************************************************************)
(* main, line 52: the title line.                                          *)
(***************************************************************************)
Title ==
  /\ pc = "title"
  /\ out' = Append(out, Line("Title", <<>>, <<>>))
  /\ pc' = "check1"
  /\ UNCHANGED <<argv, files, after, after_defs, after_count, before,
                 before_count, removed, reduced_defs, all_refs, broken,
                 orphaned, collapsed_annotation, actual_collapsed, errors,
                 stderr, exit>>

(***************************************************************************)
(* main, lines 54-64: 1. Def count reduction.                              *)
(***************************************************************************)
\* removed = before_count - after_count
Removed(bc, ac) == bc - ac

\* variant: equal counts are an error too
CountErrors_OrEqual(r) ==
  IF r <= 0 THEN <<[kind |-> "DefCount", name |-> <<>>, nums |-> <<-r>>, val |-> JNull]>>
  ELSE <<>>

\* if removed < 0: errors.append(f"Def count increased by {-removed}")
CountErrors(r) ==
  IF r < 0 THEN <<Error("DefCount", <<>>, <<-r>>, JNull)>> ELSE <<>>

Check1 ==
  /\ pc = "check1"
  /\ IF Truthy(before_path)
     THEN IF Open(before_path).status # "ok"
          THEN /\ Raise
               /\ UNCHANGED <<before, before_count, removed, out, errors>>
          ELSE /\ before' = Open(before_path).doc
               /\ before_count' = PyLen(Get(before', DEFINITIONS_KEY, JObj(<<>>)))
               /\ removed' = Removed(before_count', after_count)
               /\ out' = Append(out, Line("1", <<>>,
                                   <<before_count', after_count, removed'>>))
               /\ errors' = AppendErrors(errors, CountErrors(removed'))
               /\ pc' = "check2"
               /\ UNCHANGED <<stderr, exit>>
     ELSE /\ out' = Append(out, Line("1", <<>>, <<after_count>>))
          /\ pc' = "check2"
          /\ UNCHANGED <<before, before_count, removed, errors, stderr, exit>>
  /\ UNCHANGED <<argv, files, after, after_defs, after_count, reduced_defs,
                 all_refs, broken, orphaned, collapsed_annotation,
                 actual_collapsed>>

(***************************************************************************)
(* main, lines 66-74: 2. x-netex-reduced annotations.                      *)
(***************************************************************************)
\* variant: an empty x-netex-reduced list does not count
IsReduced_NonEmpty(defn) ==
  IsDict(defn) /\ HasKey(defn, REDUCED_KEY) /\ Lookup(defn, REDUCED_KEY).kv # <<>>

\* isinstance(defn, dict) and "x-netex-reduced" in defn
IsReduced(defn) == IsDict(defn) /\ HasKey(defn, REDUCED_KEY)

\* the loop of lines 68-70 over after_defs.items(), from an empty dict
RECURSIVE ReducedDefs(_)
ReducedDefs(kv) ==
  IF kv = <<>> THEN <<>>
  ELSE (IF IsReduced(Head(kv).v)
        THEN <<JItem(Head(kv).k, Lookup(Head(kv).v, REDUCED_KEY))>>
        ELSE <<>>) \o ReducedDefs(Tail(kv))

\* the lines of the loop over sorted(reduced_defs.items())
CollapsedLines(rd) ==
  LET names == Sorted(Keys(rd))
  IN [i \in 1..Len(names) |->
        Line("Collapsed", names[i] \o <<" ", "<", "-", " ">>
                          \o Join(<<",", " ">>, Lookup(rd, names[i]).kv), <<>>)]

Check2 ==
  /\ pc = "check2"
  /\ reduced_defs' = JObj(ReducedDefs(after_defs.kv))
  /\ out' = Append(out, Line("2", <<>>, <<PyLen(reduced_defs')>>))
              \o CollapsedLines(reduced_defs')
  /\ pc' = "check3"
  /\ UNCHANGED <<argv, files, after, after_defs, after_count, before,
                 before_count, removed, all_refs, broken, orphaned,
                 collapsed_annotation, actual_collapsed, errors, stderr, exit>>

(***************************************************************************)
(* main, lines 76-86: 3. No broken $refs.                                  *)
(***************************************************************************)
\* the loop of lines 78-79 over after_defs.items(), into all_refs
RECURSIVE AllRefs(_, _)
AllRefs(kv, refs) ==
  IF kv = <<>> THEN refs
  ELSE AllRefs(Tail(kv), collect_refs(Head(kv).v, refs))

\* variant: the definition names are not subtracted
Broken_NoSubtraction(refs, defs) == refs

\* broken = all_refs - set(after_defs.keys())
Broken(refs, defs) == refs \ Keys(defs)

\* the BROKEN / ORPHANED lines and the errors of a sorted listing
NameLines(tag, names) == [i \in 1..Len(names) |-> Line(tag, names[i], <<>>)]

NameErrors(kind, names) ==
  [i \in 1..Len(names) |-> Error(kind, names[i], <<>>, JNull)]

Check3 ==
  /\ pc = "check3"
  /\ all_refs' = AllRefs(after_defs.kv, {})
  /\ broken' = Broken(all_refs', after_defs)
  /\ out' = Append(out, Line("3", <<>>, <<Cardinality(broken')>>))
              \o NameLines("BROKEN", Sorted(broken'))
  /\ errors' = AppendErrors(errors, NameErrors("Broken", Sorted(broken')))
  /\ pc' = "check4"
  /\ UNCHANGED <<argv, files, after, after_defs, after_count, before,
                 before_count, removed, reduced_defs, orphaned,
                 collapsed_annotation, actual_collapsed, stderr, exit>>

(***************************************************************************)
(* main, lines 88-99: 4. No orphaned targets.                              *)
(***************************************************************************)
\* variant: the after names are not subtracted
RemovedNames_AllBefore(bdefs, adefs) == Keys(bdefs)

\* removed_names = set(before_defs.keys()) - set(after_defs.keys())
RemovedNames(bdefs, adefs) == Keys(bdefs) \ Keys(adefs)

\* variant: every removed name counts, referenced or not
Orphaned_AllRemoved(names, refs) == names

\* orphaned = removed_names & all_refs
Orphaned(names, refs) == names \cap refs

Check4 ==
  /\ pc = "check4"
  /\ IF Truthy(before_path)
     THEN /\ orphaned' = Orphaned(
               RemovedNames(Get(before, DEFINITIONS_KEY, JObj(<<>>)), after_defs),
               all_refs)
          /\ out' = Append(out, Line("4", <<>>, <<Cardinality(orphaned')>>))
                      \o NameLines("ORPHANED", Sorted(orphaned'))
          /\ errors' = AppendErrors(errors, NameErrors("Orphaned", Sorted(orphaned')))
     ELSE /\ out' = Append(out, Line("4", <<"s", "k", "i", "p", "p", "e", "d">>, <<>>))
          /\ UNCHANGED <<orphaned, errors>>
  /\ pc' = "check5"
  /\ UNCHANGED <<argv, files, after, after_defs, after_count, before,
                 before_count, removed, reduced_defs, all_refs, broken,
                 collapsed_annotation, actual_collapsed, stderr, exit>>

(***************************************************************************)
(* main, lines 101-108: 5. x-netex-collapsed count.                        *)
(***************************************************************************)
\* collapsed_annotation != actual_collapsed, a JSON value against an int
NotEqual(val, k) == ~(val.t = "num" /\ val.n = k)

\* the error of lines 105-108
MismatchErrors(val, k) ==
  IF NotEqual(val, k) THEN <<Error("Mismatch", <<>>, <<k>>, val)>> ELSE <<>>

Check5 ==
  /\ pc = "check5"
  /\ collapsed_annotation' = Get(after, COLLAPSED_KEY, JNum(0))
  /\ actual_collapsed' = PyLen(reduced_defs)
  /\ out' = Append(out, [Line("5", collapsed_annotation'.s, <<actual_collapsed'>>)
                           EXCEPT !.nums = IF collapsed_annotation'.t = "num"
                                           THEN <<collapsed_annotation'.n>> \o @
                                           ELSE @])
  /\ errors' = AppendErrors(errors,
                  MismatchErrors(collapsed_annotation', actual_collapsed'))
  /\ pc' = "summary"
  /\ UNCHANGED <<argv, files, after, after_defs, after_count, before,
                 before_count, removed, reduced_defs, all_refs, broken,
                 orphaned, stderr, exit>>

(***************************************************************************)
(* main, lines 110-118: the summary and the exit status.                   *)
(***************************************************************************)
\* variant: fails only on more than one error
HasErrors_MoreThanOne(errs) == Len(errs) > 1

\* if errors: (a non-empty list is true)
HasErrors(errs) == errs # <<>>

\* the "  - {err}" lines
ErrorLines(errs) == [i \in 1..Len(errs) |-> Line("Err", errs[i].name, errs[i].nums)]

Summary ==
  /\ pc = "summary"
  /\ IF HasErrors(errors)
     THEN /\ out' = (out \o <<Line("Rule", <<>>, <<>>),
                               Line("FAIL", <<>>, <<Len(errors)>>)>>)
                      \o ErrorLines(errors)
          /\ exit' = 1
     ELSE /\ out' = out \o <<Line("Rule", <<>>, <<>>), Line("PASS", <<>>, <<>>)>>
          /\ exit' = 0
  /\ pc' = "exited"
  /\ UNCHANGED <<argv, files, after, after_defs, after_count, before,
                 before_count, removed, reduced_defs, all_refs, broken,
                 orphaned, collapsed_annotation, actual_collapsed, errors,
                 stderr>>

(***************************************************************************)
(* The specification: one invocation of the script.                        *)
(***************************************************************************)
\* the status of a process that has not exited
Running == -1

\* the contents tried for the two files; a file that is never opened is absent
AfterFiles(a) ==
  IF Len(a) < 2 THEN {Missing}
  ELSE {Missing, Invalid} \cup {Ok(d) : d \in AfterDocs}

BeforeFiles(a) ==
  IF Truthy(BeforePath(a))
  THEN {Missing, Invalid} \cup {Ok(d) : d \in BeforeDocs}
  ELSE {Missing}

Init ==
  /\ argv \in ArgvSet
  /\ \E fa \in AfterFiles(argv), fb \in BeforeFiles(argv) :
       files = (AFTER_PATH :> fa) @@ (BEFORE_PATH :> fb)
  /\ pc = "args"
  /\ after = JNull
  /\ after_defs = JNull
  /\ after_count = 0
  /\ before = JNull
  /\ before_count = 0
  /\ removed = 0
  /\ reduced_defs = JNull
  /\ all_refs = {}
  /\ broken = {}
  /\ orphaned = {}
  /\ collapsed_annotation = JNull
  /\ actual_collapsed = 0
  /\ errors = <<>>
  /\ out = <<>>
  /\ stderr = <<>>
  /\ exit = Running

Next ==
  \/ Args
  \/ LoadAfter
  \/ Title
  \/ Check1
  \/ Check2
  \/ Check3
  \/ Check4
  \/ Check5
  \/ Summary

Spec == Init /\ [][Next]_vars

(***************************************************************************)
(* What the run was given, read off the command line and the files, for    *)
(* the properties below.                                                   *)
(***************************************************************************)
Range(f) == {f[i] : i \in DOMAIN f}

AfterFile == files[AFTER_PATH]

BeforeFile == files[BEFORE_PATH]

\* a path of a before document is given on the command line
BeforeSupplied == Len(argv) > 2 /\ argv[3] # ""

\* every document the command line names is readable JSON
LoadsOk ==
  /\ Len(argv) >= 2
  /\ AfterFile.status = "ok"
  /\ BeforeSupplied => BeforeFile.status = "ok"

\* the entries (name, value) of a document's definitions mapping
DefItems(doc) ==
  UNION {Range(it.v.kv) : it \in {x \in Range(doc.kv) : x.k = DEFINITIONS_KEY}}

DefNames(doc) == {it.k : it \in DefItems(doc)}

\* every value in the tree of v, v included
RECURSIVE SubValues(_)
SubValues(v) == {v} \cup UNION {SubValues(it.v) : it \in Range(v.kv)}

\* the values in the tree of v that do not lie beneath a "$ref" key
RECURSIVE OutsideRefValues(_)
OutsideRefValues(v) ==
  {v} \cup UNION {OutsideRefValues(it.v) :
                    it \in {x \in Range(v.kv) : ~(v.t = "obj" /\ x.k = REF_KEY)}}

DefinitionNames == {NameA, NameB, NameC, NameD}

\* the names n with an entry "$ref": "#/definitions/n" in a mapping among nodes
TargetsAmong(nodes) ==
  {n \in DefinitionNames :
     \E d \in nodes : d.t = "obj" /\ JItem(REF_KEY, JStr(PREFIX \o n)) \in Range(d.kv)}

\* ... in a mapping anywhere in the tree of v
TargetsIn(v) == TargetsAmong(SubValues(v))

\* the targets referenced from inside the definition entries of the after document
EntryTargets == UNION {TargetsIn(it.v) : it \in DefItems(AfterFile.doc)}

ExpectedBroken == EntryTargets \ DefNames(AfterFile.doc)

ExpectedRemovedNames == DefNames(BeforeFile.doc) \ DefNames(AfterFile.doc)

ExpectedOrphaned ==
  IF BeforeSupplied THEN ExpectedRemovedNames \cap EntryTargets ELSE {}

\* the removed names referenced anywhere in the after document
OrphanedAnywhere ==
  IF BeforeSupplied THEN ExpectedRemovedNames \cap TargetsIn(AfterFile.doc) ELSE {}

ExpectedBeforeCount == Cardinality(DefNames(BeforeFile.doc))

ExpectedAfterCount == Cardinality(DefNames(AfterFile.doc))

CountIncreased == BeforeSupplied /\ ExpectedAfterCount > ExpectedBeforeCount

\* the definitions that are objects carrying x-netex-reduced
Annotated ==
  {it \in DefItems(AfterFile.doc) :
     it.v.t = "obj" /\ \E x \in Range(it.v.kv) : x.k = REDUCED_KEY}

\* the x-netex-collapsed value (0 when absent) is the number of annotated definitions
AnnotationAgrees ==
  LET given == {x.v : x \in {y \in Range(AfterFile.doc.kv) : y.k = COLLAPSED_KEY}}
  IN IF given = {} THEN Cardinality(Annotated) = 0
     ELSE given = {JNum(Cardinality(Annotated))}

HasLine(tag) == \E i \in 1..Len(out) : out[i].tag = tag

LineOf(tag) == out[CHOOSE i \in 1..Len(out) : out[i].tag = tag]

IsKind(kind, e) == e.kind = kind

IsTag(tag, l) == l.tag = tag

ErrorsOf(kind) == SelectSeq(errors, LAMBDA e : IsKind(kind, e))

LinesOf(tag) == SelectSeq(out, LAMBDA l : IsTag(tag, l))

NamesOf(seq) == [i \in 1..Len(seq) |-> seq[i].name]

\* seq lists exactly the names of S, once each, in lexicographic order
ListsSorted(seq, S) ==
  /\ Range(seq) = S
  /\ \A i, j \in 1..Len(seq) : i < j => StrLess(seq[i], seq[j])

IsSection(l) == l.tag \in {"1", "2", "3", "4", "5"}

SectionTags == NamesOf([i \in 1..Len(SelectSeq(out, IsSection)) |->
                          [name |-> SelectSeq(out, IsSection)[i].tag]])

IsVerdict(l) == l.tag \in {"PASS", "FAIL"}

(***************************************************************************)
(* Properties.                                                             *)
(***************************************************************************)

\* C1: in every run whose documents load, the process ends with a non-zero
\* status and FAIL exactly when the error list is non-empty, which is exactly
\* when the definition count increased, a collected target is not a
\* definition, a removed name is still referenced, or the x-netex-collapsed
\* annotation differs from the number of annotated definitions; otherwise it
\* prints PASS and exits 0.
C1_ExitStatus ==
  (pc = "exited" /\ LoadsOk) =>
    /\ (exit # 0 /\ HasLine("FAIL")) <=> errors # <<>>
    /\ errors # <<>> <=> (\/ CountIncreased
                          \/ ExpectedBroken # {}
                          \/ ExpectedOrphaned # {}
                          \/ ~AnnotationAgrees)
    /\ errors = <<>> => (HasLine("PASS") /\ exit = 0)
    /\ Len(SelectSeq(out, IsVerdict)) = 1

C1_Witness ==
  /\ pc = "exited"
  /\ LoadsOk
  /\ HasLine("FAIL")
  /\ exit = 1
  /\ ~CountIncreased
  /\ ExpectedBroken = {}
  /\ ~AnnotationAgrees

\* C4: once Check 3 has run (and it runs whenever the documents load), the
\* broken set is the targets collected from the definition entries minus the
\* definition names, and the 'Broken $ref' errors (and BROKEN lines) list
\* exactly that set, once each, in sorted order; the count line reports its size.
C4_BrokenRefs ==
  /\ (pc = "exited" /\ LoadsOk) => HasLine("3")
  /\ HasLine("3") =>
       /\ broken = ExpectedBroken
       /\ ListsSorted(NamesOf(ErrorsOf("Broken")), ExpectedBroken)
       /\ NamesOf(LinesOf("BROKEN")) = NamesOf(ErrorsOf("Broken"))
       /\ LineOf("3").nums = <<Cardinality(ExpectedBroken)>>
       /\ EntryTargets \subseteq DefNames(AfterFile.doc) => ErrorsOf("Broken") = <<>>

C4_Witness ==
  /\ HasLine("3")
  /\ broken = {NameC, NameD}
  /\ NamesOf(ErrorsOf("Broken")) = <<NameC, NameD>>
  /\ after_defs.kv[1].k = NameA
  /\ NameD \in TargetsIn(after_defs.kv[1].v)

\* C7: once Check 1 has run with a before document, removed is the before
\* count minus the after count (0 for an absent definitions key); a negative
\* removed records exactly one error, of magnitude after - before, and a
\* non-negative one records none.  Without a before document no error.
C7_DefCount ==
  HasLine("1") =>
    IF BeforeSupplied
    THEN /\ removed = ExpectedBeforeCount - ExpectedAfterCount
         /\ LineOf("1").nums = <<ExpectedBeforeCount, ExpectedAfterCount, removed>>
         /\ ErrorsOf("DefCount") =
              IF removed < 0
              THEN <<Error("DefCount", <<>>,
                           <<ExpectedAfterCount - ExpectedBeforeCount>>, JNull)>>
              ELSE <<>>
    ELSE /\ ErrorsOf("DefCount") = <<>>
         /\ LineOf("1").nums = <<ExpectedAfterCount>>

C7_Witness ==
  /\ pc = "check2"
  /\ BeforeSupplied
  /\ removed = -2
  /\ ErrorsOf("DefCount") = <<Error("DefCount", <<>>, <<2>>, JNull)>>

\* C10: once Check 4 has run, every orphaned name is a broken name, every
\* 'Orphaned target' error is preceded by a 'Broken $ref' error for the same
\* name, and the error list holds at least two messages per orphaned name.
C10_OrphanedAreBroken ==
  HasLine("4") =>
    /\ orphaned \subseteq broken
    /\ \A i \in 1..Len(errors) :
         errors[i].kind = "Orphaned" =>
           \E j \in 1..(i - 1) :
             errors[j].kind = "Broken" /\ errors[j].name = errors[i].name
    /\ Len(errors) >= 2 * Cardinality(orphaned)
    /\ Len(ErrorsOf("Orphaned")) = Cardinality(orphaned)

C10_Witness ==
  /\ pc = "exited"
  /\ orphaned = {NameC}
  /\ Len(errors) = 2
  /\ errors[1].kind = "Broken"
  /\ errors[2].kind = "Orphaned"

\* the usage message and status 1, and no report section
UsageOutcome ==
  /\ HasLine("Usage")
  /\ exit = 1
  /\ SectionTags = <<>>

\* the five sections in order, then one PASS or FAIL line and its status
ReportOutcome ==
  /\ SectionTags = <<"1", "2", "3", "4", "5">>
  /\ Len(SelectSeq(out, IsVerdict)) = 1
  /\ \/ HasLine("PASS") /\ exit = 0
     \/ HasLine("FAIL") /\ exit # 0 /\ exit # Running

\* C2: every invocation ends either with the usage message and status 1 and
\* no report section, or with the five sections in order followed by one
\* PASS or FAIL line and the matching status; a missing or unparsable after
\* document ends with the usage message.
C2_TwoOutcomes ==
  pc = "exited" =>
    /\ UsageOutcome \/ ReportOutcome
    /\ (Len(argv) >= 2 /\ AfterFile.status # "ok") => UsageOutcome

\* C3: if a supplied document is unreadable or not JSON, nothing of the
\* report, the title line included, is ever printed, no check records
\* anything, and the run ends with a non-zero status.
C3_NoPartialReport ==
  (/\ Len(argv) >= 2
   /\ \/ AfterFile.status # "ok"
      \/ BeforeSupplied /\ BeforeFile.status # "ok") =>
    /\ out = <<>>
    /\ errors = <<>>
    /\ pc = "exited" => (exit # 0 /\ exit # Running)

C6_State ==
  /\ (pc = "exited" /\ LoadsOk) => HasLine("5")
  /\ HasLine("2") => LineOf("2").nums = <<Cardinality(Annotated)>>
  /\ HasLine("5") =>
       /\ actual_collapsed = Cardinality(Annotated)
       /\ Len(ErrorsOf("Mismatch")) = IF AnnotationAgrees THEN 0 ELSE 1

C8_RefValueNotWalked ==
  \A v \in SubValues(after) : collect_refs(v, {}) = TargetsAmong(OutsideRefValues(v))

\* C8 amended: for every value of the loaded document, collect_refs adds to
\* the accumulator exactly the names n for which some mapping anywhere in the
\* value's tree, beneath a "$ref" key included, has an entry "$ref" whose
\* value is the string "#/definitions/" followed by n: a "$ref" entry whose
\* value is an object or a list is walked like any other entry, and one whose
\* value is another string adds nothing.
C8_CollectRefs ==
  /\ \A v \in SubValues(after) : collect_refs(v, all_refs) = all_refs \cup TargetsIn(v)
  /\ HasLine("3") => all_refs = EntryTargets

C8_Witness ==
  /\ HasLine("3")
  /\ Len(after_defs.kv) = 1
  /\ after_defs.kv[1].v = JObj(<<JItem(REF_KEY, RefTo(NameD))>>)
  /\ all_refs = {NameD}

\* C9: in a run whose documents load, the five sections are printed in the
\* order 1..5 and the final error list is Check 1's errors, then Check 3's,
\* then Check 4's, then Check 5's, its length the sum of the four counts.
C9_AllChecksRun ==
  (pc = "exited" /\ LoadsOk) =>
    /\ SectionTags = <<"1", "2", "3", "4", "5">>
    /\ errors = ErrorsOf("DefCount") \o ErrorsOf("Broken")
                  \o ErrorsOf("Orphaned") \o ErrorsOf("Mismatch")
    /\ Len(ErrorsOf("DefCount")) = (IF CountIncreased THEN 1 ELSE 0)
    /\ Len(ErrorsOf("Broken")) = Cardinality(ExpectedBroken)
    /\ Len(ErrorsOf("Orphaned")) = Cardinality(ExpectedOrphaned)
    /\ Len(ErrorsOf("Mismatch")) = (IF AnnotationAgrees THEN 0 ELSE 1)
    /\ Len(errors) = (IF CountIncreased THEN 1 ELSE 0)
                       + Cardinality(ExpectedBroken)
                       + Cardinality(ExpectedOrphaned)
                       + (IF AnnotationAgrees THEN 0 ELSE 1)
    /\ errors = <<>> \/ LineOf("FAIL").nums = <<Len(errors)>>

C9_Witness ==
  /\ pc = "exited"
  /\ Len(ErrorsOf("DefCount")) = 1
  /\ Len(ErrorsOf("Broken")) = 2
  /\ Len(ErrorsOf("Orphaned")) = 1
  /\ Len(ErrorsOf("Mismatch")) = 1
  /\ Len(errors) = 5

====
